---- MODULE Spec2Model ----
(***************************************************************************)
(* The two command-line programs of qr-gen as one state machine.           *)
(*                                                                         *)
(*   encoder (src/src/main.rs):    parse --ecc, read the text, encode,     *)
(*                                  render as text art, SVG or PNG.        *)
(*   decoder (src/src/decoder.rs): read the image bytes, identify the      *)
(*                                  symbols, print each payload.           *)
(*                                                                         *)
(* A run is one process: prog says which program runs, pc where it stands, *)
(* exit how it ended.  The QR libraries (qrcodegen, quircs, image) are     *)
(* outside the repository; their answers are drawn from small sets.        *)
(***************************************************************************)
EXTENDS Integers, Sequences, FiniteSets

(***************************************************************************)
(* Bounds of the model.                                                    *)
(***************************************************************************)
\* Largest side of a module matrix the encode capability answers with.
MaxSide == 2
\* Largest ordinary border width and scale drawn for the command line.
MaxBorder == 1
MaxScale == 2
\* Largest number of symbols the locator reports in one image.
MaxCodes == 2
\* Largest side, in pixels, of an image buffer the allocator can satisfy.
MaxAllocSide == 40

(***************************************************************************)
(* 32-bit arithmetic.  An i32 is an integer of MinI32..MaxI32; a u32 is    *)
(* held as the i32 with the same 32 bits (so a u32 of 2^31 or more is a    *)
(* negative number here), which is what `as u32` does to the bits.         *)
(***************************************************************************)
MaxI32 == 2147483647
MinI32 == -MaxI32 - 1

Hi16(v) == (v \div 65536) % 65536
Lo16(v) == v % 65536

\* The 32-bit product of two 16-bit limbs, as <<high limb, low limb>>.
Mul16(a, b) ==
    LET t0 == a * (b % 256)
        t1 == a * (b \div 256)
        s  == t0 + (t1 % 256) * 256
    IN  <<(s \div 65536) + (t1 \div 256), s % 65536>>

FromLimbs(hi, lo) ==
    IF hi >= 32768 THEN (hi - 65536) * 65536 + lo ELSE hi * 65536 + lo

\* a * b modulo 2^32 (wrapping_mul, the same bits for i32 and u32).
WrapMul(a, b) ==
    LET p00 == Mul16(Lo16(a), Lo16(b))
        p01 == Mul16(Lo16(a), Hi16(b))
        p10 == Mul16(Hi16(a), Lo16(b))
    IN  FromLimbs((p00[1] + p01[2] + p10[2]) % 65536, p00[2])

\* The product of two u32 does not fit 32 bits.
U32MulOverflows(a, b) ==
    LET p00 == Mul16(Lo16(a), Lo16(b))
        p01 == Mul16(Lo16(a), Hi16(b))
        p10 == Mul16(Hi16(a), Lo16(b))
    IN  \/ p00[1] + p01[2] + p10[2] >= 65536
        \/ p01[1] > 0
        \/ p10[1] > 0
        \/ (Hi16(a) > 0 /\ Hi16(b) > 0)

\* The product of two non-negative i32 does not fit an i32.
I32MulOverflows(a, b) == U32MulOverflows(a, b) \/ WrapMul(a, b) < 0

\* The sum of two i32 does not fit an i32.
I32AddOverflows(a, b) ==
    IF b >= 0 THEN a > MaxI32 - b ELSE a < MinI32 - b

\* a + b modulo 2^32 (wrapping_add).
WrapAdd(a, b) ==
    IF ~I32AddOverflows(a, b) THEN a + b
    ELSE IF b >= 0 THEN (a - MaxI32 - 1) + (b - MaxI32 - 1)
    ELSE (a + MaxI32 + 1) + (b + MaxI32 + 1)

MinOf(a, b) == IF a < b THEN a ELSE b

(***************************************************************************)
(* The command line.                                                       *)
(***************************************************************************)
\* --ecc values: the eight accepted letters and three others.  A string is
\* a sequence of one-character strings.
EccFlags ==
    { <<"L">>, <<"l">>, <<"M">>, <<"m">>, <<"Q">>, <<"q">>, <<"H">>, <<"h">>,
      <<"X">>, <<>>, <<"L", "L">> }

\* -b values: the ordinary ones, and two whose doubling leaves the i32 range.
BorderWidths == (-1 .. MaxBorder) \cup {1073741824, MaxI32}

\* -s values: the ordinary ones; MaxI32; 1431655766, for which 3 * s is
\* 2^32 + 2; and -1431655765, whose bits as u32 are 2863311531, for which
\* 3 * s is 2^33 + 1.
Scales == (-1 .. MaxScale) \cup {MaxI32, 1431655766, -1431655765}

OutputTypes == {"TXT", "SVG", "PNG"}

Programs == {"encoder", "decoder"}

\* overflow-checks on (a debug build) or off (a release build).
Builds == {"debug", "release"}

InputPath == "input.file"
NoPath == "None"

(***************************************************************************)
(* The external capabilities' answers.                                     *)
(***************************************************************************)
\* Byte lengths of the text read: empty, too long for High only, too long
\* for every level.
TextLens == {0, 1274, 2954}

Patterns == {"corner", "row", "checker"}

\* A module matrix: its side and which modules are dark.
QrCodes == [size : 1 .. MaxSide, pat : Patterns]
NoQr == [size |-> 0, pat |-> "none"]

Module(qr, x, y) ==
    CASE qr.pat = "corner"  -> x = 0 /\ y = 0
      [] qr.pat = "row"     -> y = 0
      [] qr.pat = "checker" -> (x + y) % 2 = 0
      [] OTHER              -> FALSE

\* QrCode::get_module: light outside the matrix.
GetModule(qr, x, y) ==
    /\ x >= 0 /\ x < qr.size
    /\ y >= 0 /\ y < qr.size
    /\ Module(qr, x, y)

\* QrCode::encode_text in byte mode: the text fits version 40 or it does not.
Capacity(level) ==
    CASE level = "Low"      -> 2953
      [] level = "Medium"   -> 2331
      [] level = "Quartile" -> 1663
      [] level = "High"     -> 1273

EncodeFits(len, level) == len <= Capacity(level)

VARIABLES
    prog,           \* which program this process is
    build,          \* how it was built
    args,           \* the parsed command line
    stdinTerminal,  \* standard input is an interactive terminal
    fileOk,         \* the file at InputPath exists and is readable
    pc,             \* where the run stands
    ecc,            \* the error-correction level chosen from --ecc
    source,         \* where the processed bytes came from
    text,           \* the byte length of the text read (encoder)
    buffer,         \* what the bytes read hold (decoder)
    qr,             \* the module matrix encode answered with
    encodeCalled,   \* the external encode capability was invoked
    decodeCalled,   \* the external decode capability was invoked
    codes,          \* the locator's per-symbol results (decoder)
    idx,            \* how many of them the loop has handled
    stdout,         \* what was written to standard output
    stderr,         \* the messages written to the error stream
    pngFile,        \* the PNG file written, if any
    exit            \* "running", then how the process ended

vars ==
    << prog, build, args, stdinTerminal, fileOk, pc, ecc, source, text, buffer,
       qr, encodeCalled, decodeCalled, codes, idx, stdout, stderr, pngFile, exit >>


(***************************************************************************)
(* Encoder: the --ecc flag (main.rs, main).                                *)
(***************************************************************************)
ToLowerChar(c) ==
    CASE c = "L" -> "l"
      [] c = "M" -> "m"
      [] c = "Q" -> "q"
      [] c = "H" -> "h"
      [] c = "X" -> "x"
      [] OTHER   -> c

\* str::to_lowercase.
ToLowercase(s) == [i \in 1 .. Len(s) |-> ToLowerChar(s[i])]

\* EccLevel with the to_lowercase() forgotten: the match on args.ecc itself.
EccLevelCaseSensitive(flag) ==
    CASE flag = <<"l">> -> "Low"
      [] flag = <<"m">> -> "Medium"
      [] flag = <<"q">> -> "Quartile"
      [] flag = <<"h">> -> "High"
      [] OTHER          -> "Invalid"

\* The match on args.ecc.to_lowercase(); "Invalid" is the `_` arm.
EccLevel(flag) ==
    LET s == ToLowercase(flag)
    IN  CASE s = <<"l">> -> "Low"
          [] s = <<"m">> -> "Medium"
          [] s = <<"q">> -> "Quartile"
          [] s = <<"h">> -> "High"
          [] OTHER       -> "Invalid"

(***************************************************************************)
(* Messages on the error stream: a message is the sequence of its pieces,  *)
(* the formatted arguments being pieces of their own.                      *)
(***************************************************************************)
IoCause == "{io error}"

MsgInvalidEcc == <<"Invalid error correction level. Use L, M, Q, or H.">>
MsgNoInput == <<"No input provided. Please specify a file or pipe data.">>
MsgReadFile(path) == <<"Error reading file '", path, "': ", IoCause>>
MsgEncodeFailed == <<"Failed to generate QR code: ", "{data too long}">>
MsgPngError(e) == <<"Error writing PNG: ">> \o e
\* What the runtime prints when main returns Err(e): the error's Debug form.
MsgMainErr == <<"Error: ", IoCause>>
\* What the panic handler prints.
MsgPanic(what) == <<"thread 'main' panicked: ", what>>

(***************************************************************************)
(* Encoder: the renderers (main.rs).                                       *)
(***************************************************************************)
TextBorder == 4
Dark == "BLOCK"
Light == " "

\* print_qr: one line per row of the matrix and of its border, two glyphs
\* per module, and an empty line after the last.
PrintQr(q) ==
    LET n == q.size + 2 * TextBorder
        line(r) ==
            [c \in 1 .. 2 * n |->
                IF GetModule(q, ((c - 1) \div 2) - TextBorder, (r - 1) - TextBorder)
                THEN Dark ELSE Light]
    IN  [r \in 1 .. n |-> line(r)] \o << <<>> >>

\* The dark modules in the order the two loops visit them (y outer, x inner).
DarkModules(q) ==
    LET n == q.size
        all == [k \in 1 .. n * n |-> <<(k - 1) % n, (k - 1) \div n>>]
    IN  SelectSeq(all, LAMBDA m : GetModule(q, m[1], m[2]))

\* An unchecked i32 product: a panic with overflow checks on, wrapped without.
MulPanics(bld, a, b) == bld = "debug" /\ I32MulOverflows(a, b)

NoSvg == [dimension |-> 0, path |-> <<>>]

\* One subpath: "M{},{}h{}v{}h-{}z", after a blank unless the module is (0, 0).
SubPath(m, border, scale) ==
    [ sep |-> (m[1] # 0 \/ m[2] # 0),
      mx  |-> WrapMul(m[1] + border, scale),
      my  |-> WrapMul(m[2] + border, scale),
      h   |-> scale,
      v   |-> scale,
      hneg |-> scale ]

\* to_svg_string: the document, or the panic that ends the process.
ToSvgString(q, border, scale, bld) ==
    LET dark == DarkModules(q)
    IN  IF border < 0
        THEN [kind |-> "panic", msg |-> "Border must be non-negative", svg |-> NoSvg]
        ELSE IF scale <= 0
        THEN [kind |-> "panic", msg |-> "Scale must be positive", svg |-> NoSvg]
        ELSE IF I32MulOverflows(border, 2)
        THEN [kind |-> "panic", msg |-> "called Option::unwrap() on a None value",
              svg |-> NoSvg]
        ELSE IF I32AddOverflows(q.size, border * 2)
        THEN [kind |-> "panic", msg |-> "called Option::unwrap() on a None value",
              svg |-> NoSvg]
        ELSE IF \/ MulPanics(bld, q.size + border * 2, scale)
                \/ \E i \in 1 .. Len(dark) :
                      \/ MulPanics(bld, dark[i][1] + border, scale)
                      \/ MulPanics(bld, dark[i][2] + border, scale)
        THEN [kind |-> "panic", msg |-> "attempt to multiply with overflow",
              svg |-> NoSvg]
        ELSE [kind |-> "ok", msg |-> "",
              svg |-> [ dimension |-> WrapMul(q.size + border * 2, scale),
                        path |-> [i \in 1 .. Len(dark) |->
                                     SubPath(dark[i], border, scale)] ]]

NoImage == [width |-> 0, height |-> 0, pixels |-> <<>>]

\* An ImageBuffer of side w (a u32) cannot be allocated.
AllocFails(w) == w < 0 \/ w > MaxAllocSide

\* The source column (or row) the Nearest filter samples for output column o
\* when w columns are resized to nw: floor((o + 0.5) * w / nw), kept below w.
NearestIndex(o, w, nw) == MinOf(((2 * o + 1) * w) \div (2 * nw), w - 1)

\* imageops::resize(img, nw, nw, FilterType::Nearest).
Resize(img, nw) ==
    [ width |-> nw, height |-> nw,
      pixels |-> [p \in (0 .. nw - 1) \X (0 .. nw - 1) |->
                    img.pixels[<<NearestIndex(p[1], img.width, nw),
                                 NearestIndex(p[2], img.height, nw)>>]] ]

PngErr(e) == [kind |-> "err", msg |-> e, image |-> NoImage]
PngPanic(what) == [kind |-> "panic", msg |-> what, image |-> NoImage]

\* write_to_png_scaled up to the save: the scaled image, the Err it returns,
\* or the panic that ends the process.  scale_factor is a u32.
WriteToPngScaled(q, border, scale_factor, bld) ==
    IF border < 0 THEN PngErr("Border must be non-negative")
    ELSE IF scale_factor = 0 THEN PngErr("Scale factor must be positive")
    ELSE IF bld = "debug" /\ I32MulOverflows(2, border)
    THEN PngPanic("attempt to multiply with overflow")
    ELSE IF bld = "debug" /\ I32AddOverflows(q.size, WrapMul(2, border))
    THEN PngPanic("attempt to add with overflow")
    ELSE
      LET img_size == WrapAdd(q.size, WrapMul(2, border))
          dark == DarkModules(q)
          white == [ width |-> img_size, height |-> img_size,
                     pixels |-> [p \in (0 .. img_size - 1) \X (0 .. img_size - 1)
                                   |-> 255] ]
          at(m) == <<WrapAdd(m[1], border), WrapAdd(m[2], border)>>
          img == [white EXCEPT !.pixels =
                    [p \in DOMAIN white.pixels |->
                        IF \E i \in 1 .. Len(dark) : at(dark[i]) = p
                        THEN 0 ELSE 255]]
          scaled == WrapMul(img_size, scale_factor)
      IN  IF AllocFails(img_size) THEN PngPanic("memory allocation failed")
          ELSE IF bld = "debug" /\ \E i \in 1 .. Len(dark) :
                      \/ I32AddOverflows(dark[i][1], border)
                      \/ I32AddOverflows(dark[i][2], border)
          THEN PngPanic("attempt to add with overflow")
          ELSE IF \E i \in 1 .. Len(dark) : at(dark[i]) \notin DOMAIN white.pixels
          THEN PngPanic("Image index out of bounds")
          ELSE IF bld = "debug" /\ U32MulOverflows(img_size, scale_factor)
          THEN PngPanic("attempt to multiply with overflow")
          ELSE IF AllocFails(scaled) THEN PngPanic("memory allocation failed")
          ELSE [kind |-> "ok", msg |-> "", image |-> Resize(img, scaled)]


(***************************************************************************)
(* Decoder: what the image and quircs libraries answer with.               *)
(***************************************************************************)
\* The bytes read: an image of a supported format, or not.
ImageContents == {"image", "garbage"}

\* Payload bytes: "Hi", "O", and one byte that no UTF-8 text holds.
Payloads == { <<72, 105>>, <<79>>, <<255>> }

\* One element of Quirc::identify's iterator, with what Code::decode gives.
SymbolResults ==
    { [kind |-> "extract_error", payload |-> <<>>],
      [kind |-> "decode_error", payload |-> <<>>] }
    \cup { [kind |-> "ok", payload |-> p] : p \in Payloads }

CodeSeqs == UNION { [1 .. n -> SymbolResults] : n \in 0 .. MaxCodes }

Utf8Valid(bytes) == \A i \in 1 .. Len(bytes) : bytes[i] < 128

Chr(b) ==
    CASE b = 72  -> "H"
      [] b = 105 -> "i"
      [] b = 79  -> "O"
      [] OTHER   -> "?"

\* std::str::from_utf8 of valid bytes.
FromUtf8(bytes) == [i \in 1 .. Len(bytes) |-> Chr(bytes[i])]

\* What text holds when it is not UTF-8: read_to_string fails.
NotUtf8 == -1
InputContents == TextLens \cup {NotUtf8}

(***************************************************************************)
(* The initial states: the process has been started and Cli::parse() has   *)
(* accepted the command line.                                              *)
(***************************************************************************)
EncoderArgs ==
    [ ecc : EccFlags, input : {NoPath, InputPath}, output_type : OutputTypes,
      output_file : {"qrcode.png"}, border_width : BorderWidths, scale : Scales ]

DecoderArgs == [ input : {NoPath, InputPath} ]

Init ==
    /\ prog \in Programs
    /\ build \in Builds
    /\ args \in (IF prog = "encoder" THEN EncoderArgs ELSE DecoderArgs)
    /\ stdinTerminal \in BOOLEAN
    /\ fileOk \in BOOLEAN
    /\ pc = "start"
    /\ ecc = "none"
    /\ source = "none"
    /\ text = 0
    /\ buffer = "none"
    /\ qr = NoQr
    /\ encodeCalled = FALSE
    /\ decodeCalled = FALSE
    /\ codes = <<>>
    /\ idx = 0
    /\ stdout = <<>>
    /\ stderr = <<>>
    /\ pngFile = <<>>
    /\ exit = "running"

(***************************************************************************)
(* Encoder actions (main.rs).                                              *)
(***************************************************************************)
\* main, the match on --ecc: the level, or the message and `return Ok(())`.
EncParseEcc ==
    /\ prog = "encoder" /\ pc = "start"
    /\ IF EccLevel(args.ecc) = "Invalid"
       THEN /\ stderr' = Append(stderr, MsgInvalidEcc)
            /\ pc' = "done"
            /\ exit' = "success"
            /\ ecc' = ecc
       ELSE /\ ecc' = EccLevel(args.ecc)
            /\ pc' = "read"
            /\ UNCHANGED <<stderr, exit>>
    /\ UNCHANGED << prog, build, args, stdinTerminal, fileOk, source, text,
                    buffer, qr, encodeCalled, decodeCalled, codes, idx, stdout, pngFile >>

\* read_input and the `?` in main.  content is what the file or the pipe holds.
EncReadInput ==
    /\ prog = "encoder" /\ pc = "read"
    /\ \E content \in InputContents :
         IF args.input # NoPath
         THEN IF fileOk /\ content # NotUtf8
              THEN /\ source' = "file"
                   /\ text' = content
                   /\ pc' = "encode"
                   /\ UNCHANGED <<stderr, exit>>
              ELSE /\ source' = (IF fileOk THEN "file" ELSE "none")
                   /\ stderr' = stderr \o <<MsgReadFile(args.input), MsgMainErr>>
                   /\ pc' = "done"
                   /\ exit' = "failure"
                   /\ text' = text
         ELSE IF ~stdinTerminal
         THEN IF content # NotUtf8
              THEN /\ source' = "stdin"
                   /\ text' = content
                   /\ pc' = "encode"
                   /\ UNCHANGED <<stderr, exit>>
              ELSE /\ source' = "stdin"
                   /\ stderr' = Append(stderr, MsgMainErr)
                   /\ pc' = "done"
                   /\ exit' = "failure"
                   /\ text' = text
         ELSE /\ stderr' = Append(stderr, MsgNoInput)
              /\ text' = 0
              /\ pc' = "encode"
              /\ UNCHANGED <<source, exit>>
    /\ UNCHANGED << prog, build, args, stdinTerminal, fileOk, ecc, buffer, qr,
                    encodeCalled, decodeCalled, codes, idx, stdout, pngFile >>

\* main, QrCode::encode_text(&text, ecc): the matrix, or the message.
EncEncode ==
    /\ prog = "encoder" /\ pc = "encode"
    /\ encodeCalled' = TRUE
    /\ IF EncodeFits(text, ecc)
       THEN /\ qr' \in QrCodes
            /\ pc' = "render"
            /\ UNCHANGED <<stderr, exit>>
       ELSE /\ stderr' = Append(stderr, MsgEncodeFailed)
            /\ pc' = "done"
            /\ exit' = "success"
            /\ qr' = qr
    /\ UNCHANGED << prog, build, args, stdinTerminal, fileOk, ecc, source, text,
                    buffer, decodeCalled, codes, idx, stdout, pngFile >>

\* main, OutputType::TXT => print_qr(&qr).
EncRenderText ==
    /\ prog = "encoder" /\ pc = "render" /\ args.output_type = "TXT"
    /\ stdout' = stdout \o PrintQr(qr)
    /\ pc' = "done"
    /\ exit' = "success"
    /\ UNCHANGED << prog, build, args, stdinTerminal, fileOk, ecc, source, text,
                    buffer, qr, encodeCalled, decodeCalled, codes, idx, stderr, pngFile >>

\* main, OutputType::SVG => println!("{}", to_svg_string(..)).
EncRenderSvg ==
    /\ prog = "encoder" /\ pc = "render" /\ args.output_type = "SVG"
    /\ LET r == ToSvgString(qr, args.border_width, args.scale, build)
       IN  IF r.kind = "panic"
           THEN /\ stderr' = Append(stderr, MsgPanic(r.msg))
                /\ exit' = "panic"
                /\ stdout' = stdout
           ELSE /\ stdout' = Append(stdout, r.svg)
                /\ exit' = "success"
                /\ stderr' = stderr
    /\ pc' = "done"
    /\ UNCHANGED << prog, build, args, stdinTerminal, fileOk, ecc, source, text,
                    buffer, qr, encodeCalled, decodeCalled, codes, idx, pngFile >>

\* main, OutputType::PNG => write_to_png_scaled(.., args.scale as u32, ..),
\* with its save; saved is whether the file could be written.
EncRenderPng ==
    /\ prog = "encoder" /\ pc = "render" /\ args.output_type = "PNG"
    /\ \E saved \in BOOLEAN :
         LET r == WriteToPngScaled(qr, args.border_width, args.scale, build)
         IN  CASE r.kind = "panic" ->
                    /\ stderr' = Append(stderr, MsgPanic(r.msg))
                    /\ exit' = "panic"
                    /\ pngFile' = pngFile
               [] r.kind = "err" ->
                    /\ stderr' = Append(stderr, MsgPngError(<<r.msg>>))
                    /\ exit' = "success"
                    /\ pngFile' = pngFile
               [] r.kind = "ok" /\ saved ->
                    /\ pngFile' = <<r.image>>
                    /\ exit' = "success"
                    /\ stderr' = stderr
               [] OTHER ->
                    /\ stderr' = Append(stderr,
                          MsgPngError(<<"Failed to save PNG file: ", IoCause>>))
                    /\ exit' = "success"
                    /\ pngFile' = pngFile
    /\ pc' = "done"
    /\ UNCHANGED << prog, build, args, stdinTerminal, fileOk, ecc, source, text,
                    buffer, qr, encodeCalled, decodeCalled, codes, idx, stdout >>

(***************************************************************************)
(* Decoder actions (decoder.rs).                                           *)
(***************************************************************************)
\* read_image and the `?` in main.  content is what the bytes read hold.
DecReadImage ==
    /\ prog = "decoder" /\ pc = "start"
    /\ \E content \in ImageContents :
         IF ~stdinTerminal \/ (args.input # NoPath /\ fileOk)
         THEN /\ source' = (IF ~stdinTerminal THEN "stdin" ELSE "file")
              /\ buffer' = content
              /\ IF content = "image"
                 THEN /\ pc' = "identify"
                      /\ UNCHANGED <<stderr, exit>>
                 ELSE /\ stderr' = Append(stderr, MsgPanic("Failed to decode image"))
                      /\ pc' = "done"
                      /\ exit' = "panic"
         ELSE IF args.input # NoPath
         THEN /\ stderr' = Append(stderr, MsgMainErr)
              /\ pc' = "done"
              /\ exit' = "failure"
              /\ UNCHANGED <<source, buffer>>
         ELSE /\ stderr' = Append(stderr, MsgNoInput)
              /\ pc' = "done"
              /\ exit' = "failure"
              /\ UNCHANGED <<source, buffer>>
    /\ UNCHANGED << prog, build, args, stdinTerminal, fileOk, ecc, text, qr,
                    encodeCalled, decodeCalled, codes, idx, stdout, pngFile >>

\* main, into_luma8 and Quirc::identify: the symbols the locator found.
DecIdentify ==
    /\ prog = "decoder" /\ pc = "identify"
    /\ decodeCalled' = TRUE
    /\ codes' \in CodeSeqs
    /\ idx' = 0
    /\ pc' = "loop"
    /\ UNCHANGED << prog, build, args, stdinTerminal, fileOk, ecc, source, text,
                    buffer, qr, encodeCalled, stdout, stderr, pngFile, exit >>

\* main, one turn of `for code in codes`.
DecProcessCode ==
    /\ prog = "decoder" /\ pc = "loop" /\ idx < Len(codes)
    /\ LET code == codes[idx + 1]
       IN  CASE code.kind = "extract_error" ->
                    /\ stderr' = Append(stderr, MsgPanic("failed to extract qr code"))
                    /\ pc' = "done" /\ exit' = "panic"
                    /\ UNCHANGED <<stdout, idx>>
             [] code.kind = "decode_error" ->
                    /\ stderr' = Append(stderr, MsgPanic("failed to decode qr code"))
                    /\ pc' = "done" /\ exit' = "panic"
                    /\ UNCHANGED <<stdout, idx>>
             [] code.kind = "ok" /\ ~Utf8Valid(code.payload) ->
                    /\ stderr' = Append(stderr,
                          MsgPanic("called Result::unwrap() on an Err value"))
                    /\ pc' = "done" /\ exit' = "panic"
                    /\ UNCHANGED <<stdout, idx>>
             [] OTHER ->
                    /\ stdout' = Append(stdout, FromUtf8(code.payload))
                    /\ idx' = idx + 1
                    /\ UNCHANGED <<stderr, pc, exit>>
    /\ UNCHANGED << prog, build, args, stdinTerminal, fileOk, ecc, source, text,
                    buffer, qr, encodeCalled, decodeCalled, codes, pngFile >>

\* main, the end of the loop and `Ok(())`.
DecFinish ==
    /\ prog = "decoder" /\ pc = "loop" /\ idx = Len(codes)
    /\ pc' = "done"
    /\ exit' = "success"
    /\ UNCHANGED << prog, build, args, stdinTerminal, fileOk, ecc, source, text,
                    buffer, qr, encodeCalled, decodeCalled, codes, idx, stdout, stderr,
                    pngFile >>

Next ==
    \/ EncParseEcc
    \/ EncReadInput
    \/ EncEncode
    \/ EncRenderText
    \/ EncRenderSvg
    \/ EncRenderPng
    \/ DecReadImage
    \/ DecIdentify
    \/ DecProcessCode
    \/ DecFinish

Spec == Init /\ [][Next]_vars


(***************************************************************************)
(* What the claims speak of.                                               *)
(***************************************************************************)
Encoder == prog = "encoder"
Decoder == prog = "decoder"
Done == pc = "done"
HasPath == args.input # NoPath
NoOutput == stdout = <<>> /\ pngFile = <<>>
CapabilityInvoked == encodeCalled \/ decodeCalled
\* The message m holds the piece s.
Mentions(m, s) == \E i \in 1 .. Len(m) : m[i] = s
Reported(m) == \E i \in 1 .. Len(stderr) : stderr[i] = m

(***************************************************************************)
(* C1.  For every border width and scale of the encoder's command line and *)
(* output type SVG or PNG: if border < 0 or scale <= 0, the renderer       *)
(* rejects the request before any output is produced: no SVG text on       *)
(* standard output and no PNG file, a negative scale given with PNG (which *)
(* main converts to a u32) included.                                       *)
(***************************************************************************)
C1_RejectedBeforeOutput ==
    ( /\ Encoder
      /\ args.output_type \in {"SVG", "PNG"}
      /\ (args.border_width < 0 \/ args.scale <= 0) )
    => NoOutput

(***************************************************************************)
(* C2.  In the decoder, the results for the symbols of one image are       *)
(* independent: when the run has ended, every symbol whose extraction and  *)
(* payload decode succeeded has its payload on standard output as one      *)
(* line, even when another symbol of the sequence failed extraction or     *)
(* payload decoding.  (Stated for the sequences whose payloads are all     *)
(* UTF-8: the claim fails on them already.)                                *)
(***************************************************************************)
C2_AllUtf8 ==
    \A k \in 1 .. Len(codes) : codes[k].kind = "ok" => Utf8Valid(codes[k].payload)

C2_EverySuccessPrinted ==
    (Decoder /\ Done /\ decodeCalled /\ C2_AllUtf8)
    => \A i \in 1 .. Len(codes) :
          (codes[i].kind = "ok" /\ Utf8Valid(codes[i].payload))
          => \E j \in 1 .. Len(stdout) : stdout[j] = FromUtf8(codes[i].payload)

(***************************************************************************)
(* C3.  In both programs the named file has precedence: whenever an input  *)
(* path is given, the bytes processed are those read from that file,       *)
(* terminal or pipe; standard input is read only when no path is given and *)
(* standard input is not a terminal.                                       *)
(***************************************************************************)
C3_FilePrecedence ==
    /\ (HasPath /\ source # "none") => source = "file"
    /\ source = "stdin" => (~HasPath /\ ~stdinTerminal)

(***************************************************************************)
(* C4.  In both programs, with no input path and standard input a          *)
(* terminal, the run emits the "no input provided" message and terminates: *)
(* once input acquisition is over the run has ended, the encode/decode     *)
(* capability is never invoked, nothing is on standard output and no file  *)
(* is written.                                                             *)
(***************************************************************************)
C4_NoInputTerminates ==
    ( /\ ~HasPath /\ stdinTerminal
      /\ pc \notin {"start", "read"}
      /\ Encoder => ecc # "none" )
    => /\ Reported(MsgNoInput)
       /\ Done
       /\ ~CapabilityInvoked
       /\ NoOutput

(***************************************************************************)
(* C5.  The encoder maps --ecc without regard to case: L/l to Low, M/m to  *)
(* Medium, Q/q to Quartile, H/h to High.  For every other value the run    *)
(* reports the error on the error stream before input is acquired and      *)
(* before encode is attempted, and ends having read no input, written      *)
(* nothing to standard output and written no file.                         *)
(***************************************************************************)
C5_ExpectedLevel(flag) ==
    CASE flag \in { <<"L">>, <<"l">> } -> "Low"
      [] flag \in { <<"M">>, <<"m">> } -> "Medium"
      [] flag \in { <<"Q">>, <<"q">> } -> "Quartile"
      [] flag \in { <<"H">>, <<"h">> } -> "High"
      [] OTHER -> "none"

C5_EccFlag ==
    (Encoder /\ pc # "start")
    => IF C5_ExpectedLevel(args.ecc) # "none"
       THEN ecc = C5_ExpectedLevel(args.ecc)
       ELSE /\ ecc = "none"
            /\ Done
            /\ stderr = <<MsgInvalidEcc>>
            /\ source = "none"
            /\ ~encodeCalled
            /\ NoOutput

\* A run with --ecc X has ended on the message.
C5_Witness ==
    /\ Encoder /\ Done
    /\ args.ecc = <<"X">>
    /\ Reported(MsgInvalidEcc)


(***************************************************************************)
(* C6.  In both programs, when an input path is given and the file is      *)
(* missing or unreadable, the run (once it is past its flags) reports an   *)
(* error that names the path and the underlying cause, ends with a         *)
(* non-zero exit status and produces no output: encode/decode is never     *)
(* invoked, nothing on standard output, no file written.                   *)
(***************************************************************************)
C6_MissingFileReported ==
    ( /\ HasPath /\ ~fileOk /\ Done
      /\ Encoder => ecc # "none" )
    => /\ exit = "failure"
       /\ \E i \in 1 .. Len(stderr) :
             Mentions(stderr[i], args.input) /\ Mentions(stderr[i], IoCause)
       /\ ~CapabilityInvoked
       /\ NoOutput

(***************************************************************************)
(* C7.  No user-input error crashes either program: for a bad flag value   *)
(* (a negative border or non-positive scale with SVG or PNG included),     *)
(* missing or unreadable input, input bytes that are not an image of a     *)
(* supported format, and text too long to encode, the run ends with a      *)
(* message on the error stream and a normal process exit, never a panic.   *)
(***************************************************************************)
C7_UserInputError ==
    IF Encoder
    THEN \/ C5_ExpectedLevel(args.ecc) = "none"
         \/ /\ args.output_type \in {"SVG", "PNG"}
            /\ (args.border_width < 0 \/ args.scale <= 0)
         \/ (HasPath /\ ~fileOk)
         \/ (~HasPath /\ stdinTerminal)
         \/ (encodeCalled /\ ~EncodeFits(text, ecc))
    ELSE \/ (HasPath /\ ~fileOk /\ stdinTerminal)
         \/ (~HasPath /\ stdinTerminal)
         \/ buffer = "garbage"

C7_NoCrashOnUserError ==
    (Done /\ C7_UserInputError)
    => /\ exit \in {"success", "failure"}
       /\ stderr # <<>>

(***************************************************************************)
(* Exact values, as the claims about geometry state them.  The model's     *)
(* integers end at MaxI32, so "v is the exact product" is said without     *)
(* forming a product that does not fit.                                    *)
(***************************************************************************)
FitsProduct(a, b) == a = 0 \/ b <= MaxI32 \div a

\* v = (n + 2 * border) * scale, in the integers.
IsExactSide(v, n, border, scale) ==
    /\ border <= (MaxI32 - n) \div 2
    /\ FitsProduct(n + 2 * border, scale)
    /\ v = (n + 2 * border) * scale

\* v = (x + border) * scale, in the integers.
IsExactCoord(v, x, border, scale) ==
    /\ border <= MaxI32 - x
    /\ FitsProduct(x + border, scale)
    /\ v = (x + border) * scale

ValidConfig == args.border_width >= 0 /\ args.scale >= 1
Rendered == Encoder /\ Done /\ qr # NoQr
SvgEmitted == Rendered /\ args.output_type = "SVG" /\ stdout # <<>>
PngWritten == Rendered /\ args.output_type = "PNG" /\ pngFile # <<>>
TextEmitted == Rendered /\ args.output_type = "TXT" /\ stdout # <<>>
Side == 0 .. qr.size - 1

(***************************************************************************)
(* C8.  For every matrix of side N, border >= 0 and scale >= 1, the image  *)
(* write_to_png_scaled writes is exactly (N + 2*border)*scale pixels wide  *)
(* and high, and its pixel (px, py) is black exactly when the module at    *)
(* (px div scale - border, py div scale - border) is inside the matrix and *)
(* dark, white otherwise.                                                  *)
(***************************************************************************)
C8_PngGeometry ==
    (PngWritten /\ ValidConfig)
    => LET img == pngFile[1]
           b == args.border_width
           s == args.scale
       IN  /\ IsExactSide(img.width, qr.size, b, s)
           /\ IsExactSide(img.height, qr.size, b, s)
           /\ DOMAIN img.pixels = (0 .. img.width - 1) \X (0 .. img.height - 1)
           /\ \A p \in DOMAIN img.pixels :
                 img.pixels[p] =
                    IF GetModule(qr, (p[1] \div s) - b, (p[2] \div s) - b)
                    THEN 0 ELSE 255

(***************************************************************************)
(* C9.  The three renderings of one matrix agree: for every module (x, y)  *)
(* the text art has the solid-block pair at row y+4, cell x+4 exactly when *)
(* the module is dark (spaces otherwise and in the 4-module border); the   *)
(* SVG path has the subpath starting at ((x+border)*scale,                 *)
(* (y+border)*scale) exactly when the module is dark, one subpath per dark *)
(* module; the PNG pixel block of (x, y) is black exactly when the module  *)
(* is dark.                                                                *)
(***************************************************************************)
C9_TextAgrees ==
    LET n == qr.size + 2 * TextBorder
    IN  /\ Len(stdout) = n + 1
        /\ \A r \in 1 .. n :
              /\ Len(stdout[r]) = 2 * n
              /\ \A c \in 1 .. n :
                    LET x == c - 1 - TextBorder
                        y == r - 1 - TextBorder
                        glyph == IF x \in Side /\ y \in Side /\ Module(qr, x, y)
                                 THEN Dark ELSE Light
                    IN  stdout[r][2 * c - 1] = glyph /\ stdout[r][2 * c] = glyph

C9_SvgAgrees ==
    LET path == stdout[1].path
        b == args.border_width
        s == args.scale
        starts(x, y) ==
            { i \in 1 .. Len(path) :
                /\ IsExactCoord(path[i].mx, x, b, s)
                /\ IsExactCoord(path[i].my, y, b, s) }
    IN  \A x \in Side, y \in Side :
           Cardinality(starts(x, y)) = (IF Module(qr, x, y) THEN 1 ELSE 0)

C9_PngAgrees ==
    LET img == pngFile[1]
        b == args.border_width
        s == args.scale
    IN  \A x \in Side, y \in Side :
           /\ FitsProduct(x + b + 1, s) /\ FitsProduct(y + b + 1, s)
           /\ \A px \in (x + b) * s .. (x + b + 1) * s - 1 :
              \A py \in (y + b) * s .. (y + b + 1) * s - 1 :
                 /\ <<px, py>> \in DOMAIN img.pixels
                 /\ img.pixels[<<px, py>>] = (IF Module(qr, x, y) THEN 0 ELSE 255)

C9_RenderingsAgree ==
    /\ TextEmitted => C9_TextAgrees
    /\ (SvgEmitted /\ ValidConfig) => C9_SvgAgrees
    /\ (PngWritten /\ ValidConfig) => C9_PngAgrees

(***************************************************************************)
(* C10.  The size arithmetic of the SVG and PNG renderers never wraps      *)
(* silently: for border >= 0 and scale >= 1, either nothing is rendered or *)
(* the SVG's width/height/viewBox and every subpath coordinate are the     *)
(* exact (N + 2*border)*scale and (x+border)*scale, and the PNG is exactly *)
(* (N + 2*border)*scale pixels square.                                     *)
(***************************************************************************)
C10_SvgExact ==
    LET svg == stdout[1]
        dark == DarkModules(qr)
        b == args.border_width
        s == args.scale
    IN  /\ IsExactSide(svg.dimension, qr.size, b, s)
        /\ Len(svg.path) = Len(dark)
        /\ \A i \in 1 .. Len(dark) :
              /\ IsExactCoord(svg.path[i].mx, dark[i][1], b, s)
              /\ IsExactCoord(svg.path[i].my, dark[i][2], b, s)

C10_PngExact ==
    /\ IsExactSide(pngFile[1].width, qr.size, args.border_width, args.scale)
    /\ IsExactSide(pngFile[1].height, qr.size, args.border_width, args.scale)

C10_NoSilentWrap ==
    /\ (SvgEmitted /\ ValidConfig) => C10_SvgExact
    /\ (PngWritten /\ ValidConfig) => C10_PngExact

====
